---- MODULE Spec2Model ----
(***************************************************************************)
(* The signing transport of aws-signing (signing/transport.go): an         *)
(* http.RoundTripper that validates its configuration, passes requests     *)
(* that already carry an AWS4 Authorization header straight through, and   *)
(* otherwise normalises the request, hashes and rebuilds its body, has the *)
(* Signer sign it and hands it to the inner transport.                     *)
(*                                                                         *)
(* Go strings that the code inspects (header values, URL parts, error      *)
(* texts) are TLA+ strings; byte slices, and the string(hash) handed to    *)
(* the signer, are sequences of byte values 0..255.  Header maps hold      *)
(* canonical MIME keys, as net/http's server and Header.Set produce them.  *)
(***************************************************************************)
EXTENDS Integers, Sequences, FiniteSets, TLC

VARIABLES
  t,              \* the Transport: BaseTransport, signer, credentials, service, region
  req,            \* req[i]: the *http.Request of invocation i (URL, Header, Body)
  orig,           \* orig[i]: req[i] as it was when RoundTrip was entered
  pc,             \* pc[i]: where invocation i stands in RoundTrip / sign
  baseTransport,  \* baseTransport[i]: RoundTrip's local of that name
  date,           \* date[i]: sign's local `date` (Unix seconds, UTC)
  hash,           \* hash[i]: sign's local `hash`
  now,            \* the wall clock read by time.Now()
  signCalls,      \* signCalls[i]: the SignHTTP invocations made for i, in order
  innerCalls,     \* innerCalls[i]: the inner RoundTrip invocations made for i
  ret             \* ret[i]: what RoundTrip returned, [resp, err]

vars == <<t, req, orig, pc, baseTransport, date, hash, now, signCalls, innerCalls, ret>>

\* ---------------------------------------------------------------------
\* Bounds of the model
\* ---------------------------------------------------------------------
\* longest request body drawn
MaxBodyLen == 2

\* seconds the wall clock may advance during a run
MaxTime == 2

\* concurrent RoundTrip invocations in ConcSpec
NumReqs == 2

\* ---------------------------------------------------------------------
\* crypto/sha256 as called by rebuildBody (FIPS 180-4).  A 32-bit word is
\* the pair <<high 16 bits, low 16 bits>>, so that every intermediate
\* value stays within 32-bit signed integer arithmetic.
\* ---------------------------------------------------------------------
Half == 2 ^ 16

RECURSIVE BitXor(_, _, _)
BitXor(a, b, n) ==
  IF n = 0 THEN 0
  ELSE ((a + b) % 2) + 2 * BitXor(a \div 2, b \div 2, n - 1)

RECURSIVE BitAnd(_, _, _)
BitAnd(a, b, n) ==
  IF n = 0 THEN 0
  ELSE ((a % 2) * (b % 2)) + 2 * BitAnd(a \div 2, b \div 2, n - 1)

Xor32(x, y) == <<BitXor(x[1], y[1], 16), BitXor(x[2], y[2], 16)>>

And32(x, y) == <<BitAnd(x[1], y[1], 16), BitAnd(x[2], y[2], 16)>>

Not32(x) == <<(Half - 1) - x[1], (Half - 1) - x[2]>>

Add32(x, y) ==
  LET lo == x[2] + y[2]
      hi == x[1] + y[1] + (lo \div Half)
  IN  <<hi % Half, lo % Half>>

\* x >> n for 0 <= n < 32
Shr32(x, n) ==
  IF n >= 16 THEN <<0, x[1] \div (2 ^ (n - 16))>>
  ELSE <<x[1] \div (2 ^ n),
         (x[2] \div (2 ^ n)) + (x[1] % (2 ^ n)) * (2 ^ (16 - n))>>

\* bits.RotateLeft32(x, -n) for 0 <= n < 32
Rotr32(x, n) ==
  LET y == IF n >= 16 THEN <<x[2], x[1]>> ELSE x
      m == n % 16
  IN  <<(y[1] \div (2 ^ m)) + (y[2] % (2 ^ m)) * (2 ^ (16 - m)),
        (y[2] \div (2 ^ m)) + (y[1] % (2 ^ m)) * (2 ^ (16 - m))>>

sha256Init ==
  <<
    <<27145, 58983>>, <<47975, 44677>>, <<15470, 62322>>, <<42319, 62778>>,
    <<20750, 21119>>, <<39685, 26764>>, <<8067, 55723>>, <<23520, 52505>>
  >>

sha256K ==
  <<
    <<17034, 12184>>, <<28983, 17553>>, <<46528, 64463>>, <<59829, 56229>>,
    <<14678, 49755>>, <<23025, 4593>>, <<37439, 33444>>, <<43804, 24277>>,
    <<55303, 43672>>, <<4739, 23297>>, <<9265, 34238>>, <<21772, 32195>>,
    <<29374, 23924>>, <<32990, 45566>>, <<39900, 1703>>, <<49563, 61812>>,
    <<58523, 27073>>, <<61374, 18310>>, <<4033, 40390>>, <<9228, 41420>>,
    <<11753, 11375>>, <<19060, 33962>>, <<23728, 43484>>, <<30457, 35034>>,
    <<38974, 20818>>, <<43057, 50797>>, <<45059, 10184>>, <<48985, 32711>>,
    <<50912, 3059>>, <<54695, 37191>>, <<1738, 25425>>, <<5161, 10599>>,
    <<10167, 2693>>, <<11803, 8504>>, <<19756, 28156>>, <<21304, 3347>>,
    <<25866, 29524>>, <<30314, 2747>>, <<33218, 51502>>, <<37490, 11397>>,
    <<41663, 59553>>, <<43034, 26187>>, <<49739, 35696>>, <<51052, 20899>>,
    <<53650, 59417>>, <<54937, 1572>>, <<62478, 13701>>, <<4202, 41072>>,
    <<6564, 49430>>, <<7735, 27656>>, <<10056, 30540>>, <<13488, 48309>>,
    <<14620, 3251>>, <<20184, 43594>>, <<23452, 51791>>, <<26670, 28659>>,
    <<29839, 33518>>, <<30885, 25455>>, <<33992, 30740>>, <<36039, 520>>,
    <<37054, 65530>>, <<42064, 27883>>, <<48889, 41975>>, <<50801, 30962>>
  >>

\* n zero bytes, n < 64
Zeros(n) ==
  SubSeq(<<0, 0, 0, 0, 0, 0, 0, 0, 0, 0, 0, 0, 0, 0, 0, 0,
           0, 0, 0, 0, 0, 0, 0, 0, 0, 0, 0, 0, 0, 0, 0, 0,
           0, 0, 0, 0, 0, 0, 0, 0, 0, 0, 0, 0, 0, 0, 0, 0,
           0, 0, 0, 0, 0, 0, 0, 0, 0, 0, 0, 0, 0, 0, 0, 0>>, 1, n)

\* the 8-byte big-endian bit length that ends the padding
LenBytes(nbytes) ==
  LET bits == nbytes * 8
  IN  <<0, 0, 0, 0, (bits \div 16777216) % 256, (bits \div 65536) % 256,
        (bits \div 256) % 256, bits % 256>>

\* message || 0x80 || 0.. || length, a multiple of 64 bytes
Pad(d) ==
  LET n == Len(d)
      z == (64 + 55 - (n % 64)) % 64
  IN  d \o <<128>> \o Zeros(z) \o LenBytes(n)

\* the big-endian word at bytes 4j+1..4j+4 of block p
WordAt(p, j) == <<p[4 * j + 1] * 256 + p[4 * j + 2], p[4 * j + 3] * 256 + p[4 * j + 4]>>

SmallSigma0(x) == Xor32(Xor32(Rotr32(x, 7), Rotr32(x, 18)), Shr32(x, 3))

SmallSigma1(x) == Xor32(Xor32(Rotr32(x, 17), Rotr32(x, 19)), Shr32(x, 10))

BigSigma0(x) == Xor32(Xor32(Rotr32(x, 2), Rotr32(x, 13)), Rotr32(x, 22))

BigSigma1(x) == Xor32(Xor32(Rotr32(x, 6), Rotr32(x, 11)), Rotr32(x, 25))

Ch(e, f, g) == Xor32(And32(e, f), And32(Not32(e), g))

Maj(a, b, c) == Xor32(Xor32(And32(a, b), And32(a, c)), And32(b, c))

\* the message schedule extended by its next word, from block p
NextWord(w, p) ==
  LET i == Len(w) + 1
  IN  IF i <= 16 THEN Append(w, WordAt(p, i - 1))
      ELSE Append(w, Add32(Add32(SmallSigma1(w[i - 2]), w[i - 7]),
                           Add32(SmallSigma0(w[i - 15]), w[i - 16])))

\* w extended by n more words; the steps are split in halves, the first
\* half being complete before the second starts
RECURSIVE Extend(_, _, _)
Extend(w, p, n) ==
  IF n = 0 THEN w
  ELSE IF n = 1 THEN NextWord(w, p)
  ELSE LET first == Extend(w, p, n \div 2)
       IN  IF Len(first) = Len(w) + (n \div 2)
           THEN Extend(first, p, n - (n \div 2))
           ELSE first

\* the message schedule w[1..64] of one block
Schedule(p) == Extend(<<>>, p, 64)

\* round i on the working variables s = <<a, b, c, d, e, f, g, h>>
Round(s, w, i) ==
  LET t1 == Add32(Add32(Add32(s[8], BigSigma1(s[5])),
                        Add32(Ch(s[5], s[6], s[7]), sha256K[i])), w[i])
      t2 == Add32(BigSigma0(s[1]), Maj(s[1], s[2], s[3]))
  IN  <<Add32(t1, t2), s[1], s[2], s[3], Add32(s[4], t1), s[5], s[6], s[7]>>

\* rounds lo..hi, split in halves likewise
RECURSIVE Rounds(_, _, _, _)
Rounds(s, w, lo, hi) ==
  IF lo > hi THEN s
  ELSE IF lo = hi THEN Round(s, w, lo)
  ELSE LET mid   == (lo + hi) \div 2
           first == Rounds(s, w, lo, mid)
       IN  IF Len(first) = Len(s)
           THEN Rounds(first, w, mid + 1, hi)
           ELSE first

\* one 64-byte block folded into the chaining value h
Block(h, p) ==
  LET s == Rounds(h, Schedule(p), 1, 64)
  IN  [k \in 1..8 |-> Add32(h[k], s[k])]

RECURSIVE Blocks(_, _)
Blocks(h, p) ==
  IF Len(p) = 0 THEN h
  ELSE Blocks(Block(h, SubSeq(p, 1, 64)), SubSeq(p, 65, Len(p)))

\* the 32 digest bytes of message d, big-endian
sha256Sum(d) ==
  LET h == Blocks(sha256Init, Pad(d))
  IN  [k \in 1..32 |->
         LET wd == h[((k - 1) \div 4) + 1]
             r  == (k - 1) % 4
         IN  IF r = 0 THEN wd[1] \div 256
             ELSE IF r = 1 THEN wd[1] % 256
             ELSE IF r = 2 THEN wd[2] \div 256
             ELSE wd[2] % 256]


\* ---------------------------------------------------------------------
\* Request bodies: io.ReadCloser streams over byte sequences
\* ---------------------------------------------------------------------
ByteAlphabet == {97, 98}

RECURSIVE SeqsUpTo(_, _)
SeqsUpTo(S, n) ==
  IF n = 0 THEN {<<>>}
  ELSE LET shorter == SeqsUpTo(S, n - 1)
       IN  shorter \cup {Append(q, e) : q \in shorter, e \in S}

\* the byte contents a body stream may hold
BodyData == SeqsUpTo(ByteAlphabet, MaxBodyLen)

\* digests of the byte sequences the model hashes, computed once
sum256Table == [d \in BodyData |-> sha256Sum(d)]

\* sha256.Sum256(d), as a byte sequence (sum[:])
Sum256(d) == IF d \in DOMAIN sum256Table THEN sum256Table[d] ELSE sha256Sum(d)

\* string(b) of a byte slice keeps the bytes one for one
BytesToString(b) == b

\* a Go nil error
NilErr == "<nil>"

\* failAt of a stream whose Read never fails
NoFail == -1

\* req.Body == nil
NilBody == [nil |-> TRUE, data |-> <<>>, off |-> 0, failAt |-> NoFail]

\* a stream positioned at its start; Read fails once failAt bytes were read
Stream(d, k) == [nil |-> FALSE, data |-> d, off |-> 0, failAt |-> k]

\* ioutil.NopCloser(bytes.NewReader(d))
NewReader(d) == Stream(d, NoFail)

\* ioutil.ReadAll(b): the bytes from the current offset to EOF or to the
\* failure, the error, and the stream as it is left
ReadAll(b) ==
  LET stop == IF b.failAt = NoFail THEN Len(b.data) ELSE b.failAt
  IN  [d     |-> SubSeq(b.data, b.off + 1, stop),
       err   |-> IF b.failAt = NoFail THEN NilErr ELSE "unexpected EOF",
       after |-> [b EXCEPT !.off = stop]]

\* what a reader that asks for at most n bytes of b gets: the bytes from
\* the current offset, the error when it asked past the point of failure,
\* and the stream as it is left; a nil body gives nothing
ReadUpTo(b, n) ==
  LET stop == IF b.failAt = NoFail THEN Len(b.data) ELSE b.failAt
      upto == IF b.off + n < stop THEN b.off + n ELSE stop
  IN  IF b.nil THEN [d |-> <<>>, err |-> NilErr, after |-> b]
      ELSE [d     |-> SubSeq(b.data, b.off + 1, upto),
            err   |-> IF b.failAt # NoFail /\ b.off + n > stop
                      THEN "unexpected EOF" ELSE NilErr,
            after |-> [b EXCEPT !.off = upto]]

\* ---------------------------------------------------------------------
\* strings, http.Header
\* ---------------------------------------------------------------------
\* strings.HasPrefix
HasPrefix(s, prefix) ==
  Len(s) >= Len(prefix) /\ SubSeq(s, 1, Len(prefix)) = prefix

\* strings.Contains
Contains(s, substr) ==
  \E k \in 1..(Len(s) - Len(substr) + 1) : SubSeq(s, k, k + Len(substr) - 1) = substr

\* Header.Del(key)
HeaderDel(h, key) == [k \in (DOMAIN h) \ {key} |-> h[k]]

\* Header.Set(key, value)
HeaderSet(h, key, value) ==
  [k \in (DOMAIN h) \cup {key} |-> IF k = key THEN <<value>> ELSE h[k]]

\* ---------------------------------------------------------------------
\* time.Time.Format(time.RFC3339) of an instant given in Unix seconds, in
\* UTC ("2006-01-02T15:04:05Z07:00")
\* ---------------------------------------------------------------------
Pad2(n) == IF n < 10 THEN "0" \o ToString(n) ELSE ToString(n)

\* the civil date <<year, month, day>> of a day count since 1970-01-01
CivilFromDays(days) ==
  LET z   == days + 719468
      era == z \div 146097
      doe == z - era * 146097
      yoe == (doe - (doe \div 1460) + (doe \div 36524) - (doe \div 146096)) \div 365
      doy == doe - (365 * yoe + (yoe \div 4) - (yoe \div 100))
      mp  == (5 * doy + 2) \div 153
      dd  == doy - ((153 * mp + 2) \div 5) + 1
      mm  == IF mp < 10 THEN mp + 3 ELSE mp - 9
      yy  == yoe + era * 400 + (IF mm <= 2 THEN 1 ELSE 0)
  IN  <<yy, mm, dd>>

FormatRFC3339(sec) ==
  LET civil == CivilFromDays(sec \div 86400)
      tod   == sec % 86400
  IN  ToString(civil[1]) \o "-" \o Pad2(civil[2]) \o "-" \o Pad2(civil[3]) \o "T"
      \o Pad2(tod \div 3600) \o ":" \o Pad2((tod % 3600) \div 60) \o ":"
      \o Pad2(tod % 60) \o "Z"

\* the wall clock when the run starts: 2023-12-31T23:59:58Z
ClockStart == 19722 * 86400 + 86398

\* ---------------------------------------------------------------------
\* escapePath(path, encodeSep): the comma-safe path escaping that sign
\* applies to a raw path holding "%2C".  Commas and other reserved
\* characters are percent-encoded, an escape sequence already present is
\* kept as it is, and "/" is kept unless encodeSep.
\* ---------------------------------------------------------------------
HexDigits == {"0", "1", "2", "3", "4", "5", "6", "7", "8", "9",
              "A", "B", "C", "D", "E", "F", "a", "b", "c", "d", "e", "f"}

Unreserved ==
  {"A", "B", "C", "D", "E", "F", "G", "H", "I", "J", "K", "L", "M", "N", "O", "P", "Q",
   "R", "S", "T", "U", "V", "W", "X", "Y", "Z", "a", "b", "c", "d", "e", "f", "g", "h",
   "i", "j", "k", "l", "m", "n", "o", "p", "q", "r", "s", "u", "v", "w", "x", "y", "z",
   "0", "1", "2", "3", "4", "5", "6", "7", "8", "9", "-", "_", ".", "~", "t"}

\* "%XX" of one reserved character
PercentEncode(c) ==
  CASE c = "," -> "%2C"
    [] c = "/" -> "%2F"
    [] c = "%" -> "%25"
    [] c = " " -> "%20"
    [] c = ":" -> "%3A"
    [] c = "+" -> "%2B"
    [] c = "=" -> "%3D"

RECURSIVE escapeFrom(_, _, _)
escapeFrom(path, k, encodeSep) ==
  IF k > Len(path) THEN ""
  ELSE LET c == SubSeq(path, k, k)
       IN  IF c = "%" /\ k + 2 <= Len(path)
              /\ SubSeq(path, k + 1, k + 1) \in HexDigits
              /\ SubSeq(path, k + 2, k + 2) \in HexDigits
           THEN SubSeq(path, k, k + 2) \o escapeFrom(path, k + 3, encodeSep)
           ELSE IF c \in Unreserved \/ (c = "/" /\ ~encodeSep)
           THEN c \o escapeFrom(path, k + 1, encodeSep)
           ELSE PercentEncode(c) \o escapeFrom(path, k + 1, encodeSep)

escapePath(path, encodeSep) == escapeFrom(path, 1, encodeSep)

\* ---------------------------------------------------------------------
\* The Transport and its collaborators
\* ---------------------------------------------------------------------
MissingSigner == "signer is required to perform http request"

MissingService == "aws service is required to perform http request"

MissingRegion == "aws region is required to perform http request"

\* an aws.Credentials value
Credentials == [AccessKeyID |-> "AKID", SecretAccessKey |-> "SECRET", SessionToken |-> ""]

NewTransport(sgn, creds, svc, rgn) ==
  [BaseTransport |-> "nil", signer |-> sgn, credentials |-> creds,
   service |-> svc, region |-> rgn]

\* the Transport values a caller may build: NewTransport's result, with
\* the exported BaseTransport field left nil or set
Transports ==
  {[NewTransport(sgn, Credentials, svc, rgn) EXCEPT !.BaseTransport = bt] :
     sgn \in {"nil", "v4"}, svc \in {"", "es"}, rgn \in {"", "us-east-1"},
     bt \in {"nil", "custom"}}

\* errors the Signer may return from SignHTTP (NilErr: it signed)
SignerOutcomes == {NilErr, "failed to retrieve credentials"}

\* what the Signer adds to a request it signs
Authorization(creds, svc, rgn) ==
  "AWS4-HMAC-SHA256 Credential=" \o creds.AccessKeyID \o "/" \o rgn \o "/" \o svc
    \o "/aws4_request"

\* errors the inner transport may return (NilErr: a response)
InnerOutcomes == {NilErr, "dial tcp: connection refused"}

\* ---------------------------------------------------------------------
\* The requests handed to RoundTrip
\* ---------------------------------------------------------------------
NoHeader == [k \in {} |-> <<>>]

Presigned == "AWS4-HMAC-SHA256 Credential=CALLER/20231231/us-east-1/es/aws4_request"

AuthHeaders ==
  { NoHeader,
    [k \in {"Authorization"} |-> <<>>],
    [k \in {"Authorization"} |-> <<Presigned>>],
    [k \in {"Authorization"} |-> <<"AWS">>],
    [k \in {"Authorization"} |-> <<"Basic dXNlcjpwYXNz">>],
    [k \in {"Authorization"} |-> <<"Basic dXNlcjpwYXNz", Presigned>>] }

Forwarded == {"X-Forwarded-For", "X-Forwarded-Host", "X-Forwarded-Port", "X-Forwarded-Proto"}

OtherHeaders ==
  { NoHeader,
    [k \in Forwarded \cup {"Date"} |->
       IF k = "Date" THEN <<"Mon, 02 Jan 2006 15:04:05 GMT">> ELSE <<"10.0.0.1", "10.0.0.2">>],
    [k \in {"X-Forwarded-Proto", "Content-Type"} |->
       IF k = "Content-Type" THEN <<"application/json">> ELSE <<"http">>] }

Headers ==
  {[k \in (DOMAIN a) \cup (DOMAIN o) |-> IF k \in DOMAIN a THEN a[k] ELSE o[k]] :
     a \in AuthHeaders, o \in OtherHeaders}

RawPaths == {"", "/a%2Cb/c", "/a,b/c", "/x%2Cy,z"}

\* nil, or a stream that reads through, or one whose Read fails after k bytes
Bodies ==
  {NilBody} \cup
  UNION {{Stream(d, k) : k \in {NoFail} \cup (0..Len(d))} : d \in BodyData}

Requests == [Scheme : {"http", "https"}, RawPath : RawPaths, Header : Headers, Body : Bodies]

\* the requests of the concurrent runs: distinct bodies, one presigned
ConcRequests ==
  { [Scheme |-> "http", RawPath |-> "/a%2Cb/c", Header |-> h, Body |-> b] :
      h \in {[k \in {"X-Forwarded-For"} |-> <<"10.0.0.1">>]},
      b \in {NilBody} \cup {Stream(<<c>>, NoFail) : c \in ByteAlphabet} }
  \cup
  { [Scheme |-> "http", RawPath |-> "", Body |-> Stream(<<97>>, NoFail),
     Header |-> [k \in {"Authorization"} |-> <<Presigned>>]] }

Reqs == DOMAIN req

\* ---------------------------------------------------------------------
\* RoundTrip and sign, statement by statement
\* ---------------------------------------------------------------------
\* variant: the region check is left out
configErrorNoRegion(tr) ==
  IF tr.signer = "nil" THEN MissingSigner
  ELSE IF tr.service = "" THEN MissingService
  ELSE NilErr

\* the three configuration checks that open RoundTrip
configError(tr) ==
  IF tr.signer = "nil" THEN MissingSigner
  ELSE IF tr.service = "" THEN MissingService
  ELSE IF tr.region = "" THEN MissingRegion
  ELSE NilErr

\* variant: the value is compared with "AWS4" instead of tested for the prefix
alreadySignedExact(h) ==
  "Authorization" \in DOMAIN h /\ Len(h["Authorization"]) > 0
    /\ h["Authorization"][1] = "AWS4"

\* h, ok := req.Header["Authorization"]; ok && len(h) > 0 && HasPrefix(h[0], "AWS4")
alreadySigned(h) ==
  "Authorization" \in DOMAIN h /\ Len(h["Authorization"]) > 0
    /\ HasPrefix(h["Authorization"][1], "AWS4")

\* variant: every raw path is escaped
normalizeRawPathAlways(rawPath) == escapePath(rawPath, FALSE)

\* the raw path as sign leaves it
normalizeRawPath(rawPath) ==
  IF Contains(rawPath, "%2C") THEN escapePath(rawPath, FALSE) ELSE rawPath

\* variant: X-Forwarded-Port is not dropped
normalizeHeaderKeepsPort(h, tm) ==
  HeaderSet(HeaderDel(HeaderDel(HeaderDel(h, "X-Forwarded-For"), "X-Forwarded-Host"),
                      "X-Forwarded-Proto"),
            "Date", FormatRFC3339(tm))

\* the header as sign leaves it: forwarding headers dropped, Date set
normalizeHeader(h, tm) ==
  HeaderSet(HeaderDel(HeaderDel(HeaderDel(HeaderDel(h, "X-Forwarded-For"),
                                          "X-Forwarded-Host"),
                                "X-Forwarded-Port"),
                      "X-Forwarded-Proto"),
            "Date", FormatRFC3339(tm))

\* variant: the digest is always that of no bytes
rebuildBodyHashOfNil(b) ==
  IF b.nil THEN [hash |-> Sum256(<<>>), err |-> NilErr, body |-> b]
  ELSE LET r == ReadAll(b)
       IN  IF r.err # NilErr
           THEN [hash |-> <<>>, body |-> r.after,
                 err |-> "error reading http body to sign: " \o r.err]
           ELSE [hash |-> Sum256(<<>>), err |-> NilErr, body |-> NewReader(r.d)]

\* variant: the request keeps the stream that was read
rebuildBodyKeepsStream(b) ==
  IF b.nil THEN [hash |-> Sum256(<<>>), err |-> NilErr, body |-> b]
  ELSE LET r == ReadAll(b)
       IN  IF r.err # NilErr
           THEN [hash |-> <<>>, body |-> r.after,
                 err |-> "error reading http body to sign: " \o r.err]
           ELSE [hash |-> Sum256(r.d), err |-> NilErr, body |-> r.after]

\* variant: the error of ReadAll is dropped
rebuildBodyIgnoresErr(b) ==
  IF b.nil THEN [hash |-> Sum256(<<>>), err |-> NilErr, body |-> b]
  ELSE LET r == ReadAll(b)
       IN  [hash |-> Sum256(r.d), err |-> NilErr, body |-> NewReader(r.d)]

\* rebuildBody on body b: the digest returned, the error, and req.Body after
rebuildBodyResult(b) ==
  IF b.nil THEN [hash |-> Sum256(<<>>), err |-> NilErr, body |-> b]
  ELSE LET r == ReadAll(b)
       IN  IF r.err # NilErr
           THEN [hash |-> <<>>, body |-> r.after,
                 err |-> "error reading http body to sign: " \o r.err]
           ELSE [hash |-> Sum256(r.d), err |-> NilErr, body |-> NewReader(r.d)]

\* variant: the signer's error is dropped
signErrIgnored(e) == NilErr

\* what sign returns when SignHTTP returned e
signErr(e) == IF e # NilErr THEN "error signing request: " \o e ELSE NilErr

\* what RoundTrip returns when sign returned the error e
roundTripErr(e) == [resp |-> "nil", err |-> "error signing request: " \o e]

\* variant: the digest comes from a slot all invocations share
signArgsShared(i) ==
  LET j == CHOOSE q \in Reqs : hash[q] # <<>>
  IN  [credentials |-> t.credentials, req |-> req[i],
       payloadHash |-> BytesToString(hash[j]),
       service |-> t.service, region |-> t.region, signingTime |-> date[i]]

\* the arguments of t.signer.SignHTTP for invocation i
signArgs(i) ==
  [credentials |-> t.credentials, req |-> req[i],
   payloadHash |-> BytesToString(hash[i]),
   service |-> t.service, region |-> t.region, signingTime |-> date[i]]

Return(i, value) == ret' = [ret EXCEPT ![i] = value]

\* RoundTrip: the configuration checks
RoundTripValidate(i) ==
  /\ pc[i] = "RoundTrip"
  /\ IF configError(t) # NilErr
     THEN /\ Return(i, [resp |-> "nil", err |-> configError(t)])
          /\ pc' = [pc EXCEPT ![i] = "done"]
     ELSE /\ pc' = [pc EXCEPT ![i] = "bypass"]
          /\ UNCHANGED ret
  /\ UNCHANGED <<t, req, orig, baseTransport, date, hash, now, signCalls, innerCalls>>

\* RoundTrip: the inner transport is picked, an AWS4 request skips sign
RoundTripBypass(i) ==
  /\ pc[i] = "bypass"
  /\ baseTransport' = [baseTransport EXCEPT ![i] =
       IF t.BaseTransport = "nil" THEN "http.DefaultTransport" ELSE t.BaseTransport]
  /\ pc' = [pc EXCEPT ![i] = IF alreadySigned(req[i].Header) THEN "delegate" ELSE "sign"]
  /\ UNCHANGED <<t, req, orig, date, hash, now, signCalls, innerCalls, ret>>

\* sign: scheme, raw path, forwarding headers, date := time.Now(), Date header
signNormalize(i) ==
  /\ pc[i] = "sign"
  /\ \E tm \in now..(ClockStart + MaxTime) :
       /\ now' = tm
       /\ date' = [date EXCEPT ![i] = tm]
       /\ req' = [req EXCEPT ![i] =
            [Scheme  |-> "https",
             RawPath |-> normalizeRawPath(req[i].RawPath),
             Header  |-> normalizeHeader(req[i].Header, tm),
             Body    |-> req[i].Body]]
  /\ pc' = [pc EXCEPT ![i] = "rebuildBody"]
  /\ UNCHANGED <<t, orig, baseTransport, hash, signCalls, innerCalls, ret>>

\* sign: hash, err := t.rebuildBody(req)
rebuildBody(i) ==
  /\ pc[i] = "rebuildBody"
  /\ LET r == rebuildBodyResult(req[i].Body)
     IN  /\ req' = [req EXCEPT ![i].Body = r.body]
         /\ hash' = [hash EXCEPT ![i] = r.hash]
         /\ IF r.err # NilErr
            THEN /\ Return(i, roundTripErr(r.err))
                 /\ pc' = [pc EXCEPT ![i] = "done"]
            ELSE /\ pc' = [pc EXCEPT ![i] = "SignHTTP"]
                 /\ UNCHANGED ret
  /\ UNCHANGED <<t, orig, baseTransport, date, now, signCalls, innerCalls>>

\* sign: t.signer.SignHTTP(...), which signs the request or fails
signSignHTTP(i) ==
  /\ pc[i] = "SignHTTP"
  /\ \E e \in SignerOutcomes :
       /\ signCalls' = [signCalls EXCEPT ![i] = Append(@, [args |-> signArgs(i), err |-> e])]
       /\ req' = [req EXCEPT ![i].Header =
            IF e = NilErr
            THEN HeaderSet(@, "Authorization",
                           Authorization(t.credentials, t.service, t.region))
            ELSE @]
       /\ IF signErr(e) # NilErr
          THEN /\ Return(i, roundTripErr(signErr(e)))
               /\ pc' = [pc EXCEPT ![i] = "done"]
          ELSE /\ pc' = [pc EXCEPT ![i] = "delegate"]
               /\ UNCHANGED ret
  /\ UNCHANGED <<t, orig, baseTransport, date, hash, now, innerCalls>>

\* RoundTrip: return baseTransport.RoundTrip(req), whatever the request.
\* The inner transport is any http.RoundTripper: it reads none, some or
\* all of the body it is handed, and answers or fails as it likes (with
\* the read error too, when a read of the body failed); RoundTrip returns
\* what it returns.
RoundTripDelegate(i) ==
  /\ pc[i] = "delegate"
  /\ \E n \in 0..(MaxBodyLen + 1) :
       LET r == ReadUpTo(req[i].Body, n)
       IN  /\ innerCalls' = [innerCalls EXCEPT ![i] =
                Append(@, [via |-> baseTransport[i], req |-> req[i],
                           bodyRead |-> r.d, readErr |-> r.err])]
           /\ req' = [req EXCEPT ![i].Body = r.after]
           /\ \E e \in InnerOutcomes \cup (IF r.err # NilErr THEN {r.err} ELSE {}) :
                Return(i, IF e = NilErr THEN [resp |-> "response", err |-> NilErr]
                             ELSE [resp |-> "nil", err |-> e])
  /\ pc' = [pc EXCEPT ![i] = "done"]
  /\ UNCHANGED <<t, orig, baseTransport, date, hash, now, signCalls>>

Next ==
  \/ \E i \in Reqs : RoundTripValidate(i)
  \/ \E i \in Reqs : RoundTripBypass(i)
  \/ \E i \in Reqs : signNormalize(i)
  \/ \E i \in Reqs : rebuildBody(i)
  \/ \E i \in Reqs : signSignHTTP(i)
  \/ \E i \in Reqs : RoundTripDelegate(i)

\* invocations ids of RoundTrip on a transport of T with requests of R
InitWith(T, R, ids) ==
  /\ t \in T
  /\ req \in [ids -> R]
  /\ orig = req
  /\ pc = [i \in ids |-> "RoundTrip"]
  /\ baseTransport = [i \in ids |-> "nil"]
  /\ date = [i \in ids |-> 0]
  /\ hash = [i \in ids |-> <<>>]
  /\ now = ClockStart
  /\ signCalls = [i \in ids |-> <<>>]
  /\ innerCalls = [i \in ids |-> <<>>]
  /\ ret = [i \in ids |-> [resp |-> "nil", err |-> NilErr]]

\* one RoundTrip, on any transport, with any request
Init == InitWith(Transports, Requests, {1})

Spec == Init /\ [][Next]_vars

\* NumReqs concurrent RoundTrips on one configured transport
ConcInit ==
  InitWith({tr \in Transports : configError(tr) = NilErr /\ tr.BaseTransport = "custom"},
           ConcRequests, 1..NumReqs)

ConcSpec == ConcInit /\ [][Next]_vars

\* ---------------------------------------------------------------------
\* Vocabulary of the properties
\* ---------------------------------------------------------------------
\* the request's Authorization header starts with AWS4
StartsWithAWS4(h) ==
  /\ "Authorization" \in DOMAIN h
  /\ h["Authorization"] # <<>>
  /\ HasPrefix(Head(h["Authorization"]), "AWS4")

\* signer, service and region are all present
Configured == t.signer # "nil" /\ t.service # "" /\ t.region # ""

\* the body bytes of request i on entry
OrigBytes(i) == IF orig[i].Body.nil THEN <<>> ELSE orig[i].Body.data

\* the errors that name a piece the transport lacks
MissingErrors ==
  {e \in {MissingSigner, MissingService, MissingRegion} :
     \/ e = MissingSigner /\ t.signer = "nil"
     \/ e = MissingService /\ t.service = ""
     \/ e = MissingRegion /\ t.region = ""}

HexChars == <<48, 49, 50, 51, 52, 53, 54, 55, 56, 57, 97, 98, 99, 100, 101, 102>>

\* hex.EncodeToString(b), as the bytes of the resulting string
HexEncode(b) ==
  [k \in 1..(2 * Len(b)) |->
     HexChars[1 + (IF k % 2 = 1 THEN b[(k + 1) \div 2] \div 16 ELSE b[k \div 2] % 16)]]

SignCallsOf(i) == {signCalls[i][k] : k \in 1..Len(signCalls[i])}

InnerCallsOf(i) == {innerCalls[i][k] : k \in 1..Len(innerCalls[i])}

\* p is the beginning of the byte sequence q
IsPrefix(p, q) == Len(p) <= Len(q) /\ SubSeq(q, 1, Len(p)) = p

\* ---------------------------------------------------------------------
\* C1 as stated: every request whose Authorization header starts with
\* AWS4 is forwarded to the inner transport unmodified, and the signer is
\* not invoked.
C1_ForwardedWhateverTheConfig ==
  \A i \in Reqs :
    (StartsWithAWS4(orig[i].Header) /\ pc[i] = "done") =>
      /\ Len(innerCalls[i]) = 1
      /\ innerCalls[i][1].req = orig[i]
      /\ signCalls[i] = <<>>

\* C1 amended: a request whose Authorization header starts with AWS4 is
\* never changed, read, hashed or signed by RoundTrip; what the inner
\* transport is handed is the request as it came in; and on a transport
\* with signer, service and region it is handed to the inner transport
\* exactly once.
C1_BypassForwardsUnmodified ==
  \A i \in Reqs :
    StartsWithAWS4(orig[i].Header) =>
      /\ signCalls[i] = <<>>
      /\ hash[i] = <<>>
      /\ \A c \in InnerCallsOf(i) : c.req = orig[i]
      /\ innerCalls[i] = <<>> => req[i] = orig[i]
      /\ (Configured /\ pc[i] = "done") => Len(innerCalls[i]) = 1
      /\ (~Configured /\ pc[i] = "done") => (innerCalls[i] = <<>> /\ ret[i].err \in MissingErrors)

C1_Witness ==
  \E i \in Reqs :
    /\ StartsWithAWS4(orig[i].Header)
    /\ Configured
    /\ pc[i] = "done"
    /\ Len(innerCalls[i]) = 1
    /\ Len(innerCalls[i][1].bodyRead) >= 1
    /\ Forwarded \subseteq DOMAIN innerCalls[i][1].req.Header

\* C2: with the signer nil, the service empty or the region empty,
\* RoundTrip returns at once the error that names a missing piece, no
\* response, and has changed nothing of the request, read no body, called
\* neither the signer nor the inner transport.
C2_ConfigErrorsTouchNothing ==
  /\ Cardinality({MissingSigner, MissingService, MissingRegion}) = 3
  /\ \A i \in Reqs :
       ~Configured =>
         /\ pc[i] \in {"RoundTrip", "done"}
         /\ pc[i] = "done" => (ret[i].resp = "nil" /\ ret[i].err \in MissingErrors)
         /\ (pc[i] = "done" /\ Cardinality(MissingErrors) = 1) => {ret[i].err} = MissingErrors
         /\ req[i] = orig[i]
         /\ hash[i] = <<>>
         /\ signCalls[i] = <<>>
         /\ innerCalls[i] = <<>>

C2_Witness ==
  \E i \in Reqs :
    /\ t.signer # "nil" /\ t.service # "" /\ t.region = ""
    /\ pc[i] = "done"
    /\ ret[i].err = MissingRegion
    /\ ~orig[i].Body.nil
    /\ ~StartsWithAWS4(orig[i].Header)

\* C3: when SignHTTP returned an error for a request, RoundTrip returns
\* that error wrapped, no response, and the inner transport is never
\* invoked for the request.
C3_SignFailureNotForwarded ==
  \A i \in Reqs :
    \A c \in SignCallsOf(i) :
      c.err # NilErr =>
        /\ innerCalls[i] = <<>>
        /\ pc[i] = "done"
        /\ ret[i] = [resp |-> "nil",
                     err |-> "error signing request: error signing request: " \o c.err]

C3_Witness ==
  \E i \in Reqs :
    /\ pc[i] = "done"
    /\ \E c \in SignCallsOf(i) : c.err # NilErr
    /\ ret[i].err # NilErr

\* C4: the payload hash handed to SignHTTP is the hex encoding of the
\* SHA-256 digest of the request body.
C4_PayloadHashIsHex ==
  \A i \in Reqs :
    \A c \in SignCallsOf(i) : c.args.payloadHash = HexEncode(Sum256(OrigBytes(i)))

\* C5: a request that is not bypassed and reaches the inner transport was
\* signed exactly once, with the SHA-256 digest of exactly the bytes the
\* body it is handed holds; whatever the inner transport reads from that
\* body is the beginning of those bytes, and all of them when it reads
\* to the end; with no body, the digest of no bytes.
C5_DigestOfDeliveredBytes ==
  \A i \in Reqs :
    ~StartsWithAWS4(orig[i].Header) =>
      /\ \A c \in InnerCallsOf(i) :
           /\ Len(signCalls[i]) = 1
           /\ signCalls[i][1].args.payloadHash = Sum256(ReadAll(c.req.Body).d)
           /\ IsPrefix(c.bodyRead, ReadAll(c.req.Body).d)
           /\ ReadAll(req[i].Body).d = <<>> =>
                signCalls[i][1].args.payloadHash = Sum256(c.bodyRead)
           /\ orig[i].Body.nil => signCalls[i][1].args.payloadHash = Sum256(<<>>)
      /\ (pc[i] = "done" /\ ret[i].err = NilErr) =>
           (Len(signCalls[i]) = 1 /\ Len(innerCalls[i]) = 1)

C5_Witness ==
  \E i \in Reqs :
    /\ ~StartsWithAWS4(orig[i].Header)
    /\ pc[i] = "done"
    /\ ret[i].err = NilErr
    /\ Len(innerCalls[i]) = 1
    /\ Len(innerCalls[i][1].bodyRead) >= 1

\* C6: for a signed request with body bytes B the inner transport is
\* handed a fresh stream over exactly B: what it reads is the beginning
\* of B, without error, and what it reads followed by what is left to
\* read is B, each byte once.
C6_BodyRoundTrip ==
  \A i \in Reqs :
    ~StartsWithAWS4(orig[i].Header) =>
      /\ Len(innerCalls[i]) <= 1
      /\ \A c \in InnerCallsOf(i) :
           /\ IsPrefix(c.bodyRead, OrigBytes(i))
           /\ c.readErr = NilErr
           /\ c.req.Body = (IF orig[i].Body.nil THEN NilBody ELSE NewReader(OrigBytes(i)))
           /\ ReadAll(c.req.Body).d = OrigBytes(i)
           /\ ~req[i].Body.nil =>
                /\ c.bodyRead \o ReadAll(req[i].Body).d = OrigBytes(i)
                /\ ReadAll(req[i].Body).err = NilErr

C6_Witness ==
  \E i \in Reqs :
    /\ ~StartsWithAWS4(orig[i].Header)
    /\ Len(innerCalls[i]) = 1
    /\ Len(OrigBytes(i)) >= 2
    /\ innerCalls[i][1].bodyRead = OrigBytes(i)

\* C7: the request handed to the inner transport for a request without an
\* AWS4 Authorization header has scheme https, none of the four
\* X-Forwarded-* headers, and a Date header.
C7_NormalizedBeforeForwarding ==
  \A i \in Reqs :
    ~StartsWithAWS4(orig[i].Header) =>
      \A c \in InnerCallsOf(i) :
        /\ c.req.Scheme = "https"
        /\ Forwarded \cap DOMAIN c.req.Header = {}
        /\ "Date" \in DOMAIN c.req.Header
        /\ c.req.Header["Date"] # <<>>

C7_Witness ==
  \E i \in Reqs :
    /\ ~StartsWithAWS4(orig[i].Header)
    /\ orig[i].Scheme = "http"
    /\ Forwarded \subseteq DOMAIN orig[i].Header
    /\ innerCalls[i] # <<>>

\* C8: when reading the body of a request to sign fails, RoundTrip
\* returns the body-read error, and neither the signer nor the inner
\* transport is invoked for the request.
C8_BodyReadFailure ==
  \A i \in Reqs :
    (~StartsWithAWS4(orig[i].Header) /\ orig[i].Body.failAt # NoFail) =>
      /\ signCalls[i] = <<>>
      /\ innerCalls[i] = <<>>
      /\ pc[i] \notin {"SignHTTP", "delegate"}
      /\ (Configured /\ pc[i] = "done") =>
           ret[i] = [resp |-> "nil",
                     err |-> "error signing request: error reading http body to sign: unexpected EOF"]

C8_Witness ==
  \E i \in Reqs :
    /\ ~StartsWithAWS4(orig[i].Header)
    /\ orig[i].Body.failAt >= 1
    /\ Configured
    /\ pc[i] = "done"
    /\ ret[i].err # NilErr

\* C9: under any interleaving of RoundTrips on one transport, every
\* SignHTTP invocation for a request carries the digest of that request's
\* own body, the instant of that request's own Date header, and the
\* transport's credentials, service and region; and no step changes the
\* transport's fields.
C9_IndependentSigning ==
  /\ [](\A i \in Reqs :
          \A c \in SignCallsOf(i) :
            /\ c.args.payloadHash = Sum256(OrigBytes(i))
            /\ c.args.signingTime = date[i]
            /\ c.args.req.Header["Date"] = <<FormatRFC3339(c.args.signingTime)>>
            /\ c.args.credentials = t.credentials
            /\ c.args.service = t.service
            /\ c.args.region = t.region)
  /\ [][t' = t]_vars

C9_Witness ==
  \E i, j \in Reqs :
    /\ i # j
    /\ pc[i] = "delegate" /\ pc[j] = "delegate"
    /\ signCalls[i] # <<>> /\ signCalls[j] # <<>>
    /\ signCalls[i][1].args.payloadHash # signCalls[j][1].args.payloadHash

\* C10: the request SignHTTP is given has the raw path re-escaped by
\* escapePath when the raw path on entry held "%2C", and the raw path on
\* entry otherwise.
C10_CommaPathReescaped ==
  \A i \in Reqs :
    \A c \in SignCallsOf(i) :
      c.args.req.RawPath =
        (IF Contains(orig[i].RawPath, "%2C") THEN escapePath(orig[i].RawPath, FALSE)
         ELSE orig[i].RawPath)

C10_Witness ==
  \E i \in Reqs :
    /\ orig[i].RawPath = "/x%2Cy,z"
    /\ signCalls[i] # <<>>
    /\ signCalls[i][1].args.req.RawPath = "/x%2Cy%2Cz"

====
